---- MODULE Spec2Model ----
(***************************************************************************)
(* Model of the gerrit resource of concourse-resources: the `in` command   *)
(* (gerrit/in.go), the `out` command (gerrit/out.go) and the two pure      *)
(* helpers resolveFetchArgs and buildRevisionLink.                         *)
(*                                                                         *)
(* Three specifications share the variables:                               *)
(*   SpecFetch  resolveFetchArgs applied to bounded inputs                 *)
(*   SpecLink   buildRevisionLink applied to bounded inputs                *)
(*   Spec       a sequence of `in` / `out` invocations over one            *)
(*              filesystem, each git call and each I/O call being a step   *)
(*                                                                         *)
(* Go strings are TLA+ strings where they are only compared, and sequences *)
(* of one-character strings where the code looks inside them (URLs).       *)
(* A Go error value is a sequence of strings; the empty sequence is nil.   *)
(***************************************************************************)
EXTENDS Integers, Sequences, FiniteSets, TLC

VARIABLES
    fetchCall,  \* SpecFetch: the arguments of resolveFetchArgs
    fetchRet,   \* SpecFetch: [done, ret]: whether it returned, and what
    linkCall,   \* SpecLink: the arguments of buildRevisionLink
    linkRet,    \* SpecLink: [done, ret]: whether it returned, and what
    pc,         \* Spec: where the running invocation stands
    req,        \* Spec: the decoded request: cmd, src, ver, params, targetDir
    loc,        \* Spec: the handler's locals
    authMan,    \* Spec: the invocation's auth manager
    resp,       \* Spec: the response built so far and the error returned
    gitLog,     \* Spec: the git commands this invocation has issued
    logs,       \* Spec: what this invocation has logged (git output aside)
    reviews,    \* Spec: the SetReview calls this invocation has made
    fs,         \* Spec: the files: marker files, exclude files, cookie files
    lastIn      \* Spec: history, per marker path the last `in` that succeeded

pureVars == <<fetchCall, fetchRet, linkCall, linkRet>>
procVars == <<pc, req, loc, authMan, resp, gitLog, logs, reviews, fs, lastIn>>
vars == <<fetchCall, fetchRet, linkCall, linkRet,
          pc, req, loc, authMan, resp, gitLog, logs, reviews, fs, lastIn>>

NilErr == <<>>
NoReturn == [args |-> <<>>, err |-> NilErr]

\* The values the variables of a specification that is not running keep
NoLinkCall == [pre |-> <<>>, path |-> <<>>, suf |-> <<>>, changeNum |-> 0, psNum |-> 0]
NoLinkRet == [done |-> FALSE, ret |-> [link |-> <<>>, err |-> NilErr]]
NoFetchCall == [params |-> [FetchProtocol |-> "", FetchUrl |-> ""],
                rev |-> [Ref |-> "", Fetch |-> <<>>]]
NoFetchRet == [done |-> FALSE, ret |-> NoReturn]

(***************************************************************************)
(* resolveFetchArgs (in.go:147-169)                                        *)
(***************************************************************************)

\* in.go:37
defaultFetchProtocolsReversed == <<"anonymous http", "http">>

defaultFetchProtocols == <<"http", "anonymous http">>

\* in.go:153-158: the first default protocol that is a key of the mapping,
\* "" when none is (fetchProtocol keeps its empty value).
RECURSIVE firstDefaultProtocol(_, _, _)
firstDefaultProtocol(protos, i, fetch) ==
    IF i > Len(protos) THEN ""
    ELSE IF protos[i] \in DOMAIN fetch THEN protos[i]
    ELSE firstDefaultProtocol(protos, i + 1, fetch)

\* in.go:151-159
selectProtocol(params, rev) ==
    IF params.FetchProtocol = ""
    THEN firstDefaultProtocol(defaultFetchProtocols, 1, rev.Fetch)
    ELSE params.FetchProtocol

resolveFetchArgsProtocolFirst(params, rev) ==
    LET fetchProtocol == selectProtocol(params, rev) IN
    IF fetchProtocol \in DOMAIN rev.Fetch
    THEN [args |-> <<"fetch", rev.Fetch[fetchProtocol].URL, rev.Fetch[fetchProtocol].Ref>>,
          err |-> NilErr]
    ELSE IF params.FetchUrl # ""
    THEN [args |-> <<"fetch", params.FetchUrl, rev.Ref>>, err |-> NilErr]
    ELSE [args |-> <<>>, err |-> <<"no fetch info for protocol", fetchProtocol>>]

\* in.go:147-169
resolveFetchArgs(params, rev) ==
    IF params.FetchUrl = ""
    THEN LET fetchProtocol == selectProtocol(params, rev) IN
         IF fetchProtocol \in DOMAIN rev.Fetch
         THEN [args |-> <<"fetch", rev.Fetch[fetchProtocol].URL,
                          rev.Fetch[fetchProtocol].Ref>>,
               err |-> NilErr]
         ELSE [args |-> <<>>,
               err |-> <<"no fetch info for protocol", fetchProtocol>>]
    ELSE [args |-> <<"fetch", params.FetchUrl, rev.Ref>>, err |-> NilErr]

(***************************************************************************)
(* Strings the code looks inside: sequences of one-character strings       *)
(***************************************************************************)

LowerSeq == <<"a","b","c","d","e","f","g","h","i","j","k","l","m",
              "n","o","p","q","r","s","t","u","v","w","x","y","z">>
UpperSeq == <<"A","B","C","D","E","F","G","H","I","J","K","L","M",
              "N","O","P","Q","R","S","T","U","V","W","X","Y","Z">>
DigitSeq == <<"0","1","2","3","4","5","6","7","8","9">>

Lower == {LowerSeq[i] : i \in 1..26}
Upper == {UpperSeq[i] : i \in 1..26}
Digits == {DigitSeq[i] : i \in 1..10}

\* The bytes 32..126 as one-character strings, in the order of their codes;
\* byte 96 has no string literal and is written like the bytes outside this
\* range (see Byte)
Ascii == <<" ", "!", "\"", "#", "$", "%", "&", "'", "(", ")", "*", "+", ",",
           "-", ".", "/", "0", "1", "2", "3", "4", "5", "6", "7", "8", "9",
           ":", ";", "<", "=", ">", "?", "@",
           "A","B","C","D","E","F","G","H","I","J","K","L","M",
           "N","O","P","Q","R","S","T","U","V","W","X","Y","Z",
           "[", "\\", "]", "^", "_", "%60",
           "a","b","c","d","e","f","g","h","i","j","k","l","m",
           "n","o","p","q","r","s","t","u","v","w","x","y","z",
           "{", "|", "}", "~">>

\* url.upperhex
UpperHex == <<"0","1","2","3","4","5","6","7","8","9","A","B","C","D","E","F">>
LowerHex == <<"0","1","2","3","4","5","6","7","8","9","a","b","c","d","e","f">>

\* The element of a string that stands for the byte v: its character, or
\* "%XY" (one element) for a byte that has no one-character string
Byte(v) ==
    IF 32 <= v /\ v <= 126 THEN Ascii[v - 31]
    ELSE "%" \o UpperHex[(v \div 16) + 1] \o UpperHex[(v % 16) + 1]

\* The byte an element of a string stands for
Code(c) ==
    IF \E i \in 1..95 : Ascii[i] = c
    THEN 31 + (CHOOSE i \in 1..95 : Ascii[i] = c)
    ELSE CHOOSE v \in (0..31) \cup (127..255) : Byte(v) = c

\* url.ishex
HexDigits == {LowerHex[i] : i \in 1..16} \cup {UpperHex[i] : i \in 1..16}

\* url.unhex
unhex(c) == (CHOOSE i \in 1..16 : LowerHex[i] = c \/ UpperHex[i] = c) - 1

\* strings.ToLower, on ASCII
ToLower(s) ==
    [i \in 1..Len(s) |->
        IF s[i] \in Upper THEN LowerSeq[CHOOSE k \in 1..26 : UpperSeq[k] = s[i]]
        ELSE s[i]]

HasPrefix(s, pre) == Len(s) >= Len(pre) /\ SubSeq(s, 1, Len(pre)) = pre

\* strings.Index for a one-character needle: first position, 0 when absent
Index(s, ch) ==
    IF \E i \in 1..Len(s) : s[i] = ch
    THEN CHOOSE i \in 1..Len(s) : s[i] = ch /\ \A j \in 1..(i - 1) : s[j] # ch
    ELSE 0

\* strings.LastIndex for a one-character needle
LastIndex(s, ch) ==
    IF \E i \in 1..Len(s) : s[i] = ch
    THEN CHOOSE i \in 1..Len(s) : s[i] = ch /\ \A j \in (i + 1)..Len(s) : s[j] # ch
    ELSE 0

Contains(s, ch) == \E i \in 1..Len(s) : s[i] = ch

Count(s, ch) == Cardinality({i \in 1..Len(s) : s[i] = ch})

\* strings.Cut for a one-character separator
Cut(s, ch) ==
    LET i == Index(s, ch) IN
    IF i = 0 THEN [before |-> s, after |-> <<>>, found |-> FALSE]
    ELSE [before |-> SubSeq(s, 1, i - 1), after |-> SubSeq(s, i + 1, Len(s)),
          found |-> TRUE]

\* fmt's %d of a non-negative int
RECURSIVE Itoa(_)
Itoa(n) == IF n < 10 THEN <<DigitSeq[n + 1]>>
           ELSE Itoa(n \div 10) \o <<DigitSeq[(n % 10) + 1]>>

(***************************************************************************)
(* path.Join and path.Clean (in.go:191)                                    *)
(***************************************************************************)

\* strings.Split(s, "/")
RECURSIVE SplitSlash(_)
SplitSlash(s) ==
    LET c == Cut(s, "/") IN
    IF c.found THEN <<c.before>> \o SplitSlash(c.after) ELSE <<s>>

\* path.Clean's walk over the elements: empty and "." elements are dropped,
\* ".." removes the element before it, is dropped at the root of a rooted
\* path and kept at the front of an unrooted one.
RECURSIVE CleanSegs(_, _, _)
CleanSegs(segs, out, rooted) ==
    IF segs = <<>> THEN out
    ELSE LET e == Head(segs) IN
         IF e = <<>> \/ e = <<".">> THEN CleanSegs(Tail(segs), out, rooted)
         ELSE IF e = <<".", ".">>
         THEN IF out # <<>> /\ out[Len(out)] # <<".", ".">>
              THEN CleanSegs(Tail(segs), SubSeq(out, 1, Len(out) - 1), rooted)
              ELSE IF rooted THEN CleanSegs(Tail(segs), out, rooted)
              ELSE CleanSegs(Tail(segs), Append(out, e), rooted)
         ELSE CleanSegs(Tail(segs), Append(out, e), rooted)

RECURSIVE JoinSlash(_)
JoinSlash(segs) ==
    IF segs = <<>> THEN <<>>
    ELSE IF Len(segs) = 1 THEN segs[1]
    ELSE segs[1] \o <<"/">> \o JoinSlash(Tail(segs))

\* path.Clean
Clean(p) ==
    IF p = <<>> THEN <<".">>
    ELSE LET rooted == p[1] = "/"
             body == JoinSlash(CleanSegs(SplitSlash(p), <<>>, rooted))
         IN IF rooted THEN <<"/">> \o body
            ELSE IF body = <<>> THEN <<".">> ELSE body

\* path.Join(a, b)
PathJoin(a, b) ==
    IF a = <<>> /\ b = <<>> THEN <<>>
    ELSE IF a = <<>> THEN Clean(b)
    ELSE IF b = <<>> THEN Clean(a)
    ELSE Clean(a \o <<"/">> \o b)

(***************************************************************************)
(* net/url: Parse and URL.String (in.go:187, in.go:192)                    *)
(***************************************************************************)

EmptyURL == [err |-> NilErr, Scheme |-> <<>>, Opaque |-> <<>>, Host |-> <<>>,
             Path |-> <<>>, RawPath |-> <<>>, RawQuery |-> <<>>,
             ForceQuery |-> FALSE, OmitHost |-> FALSE, Fragment |-> <<>>,
             RawFragment |-> <<>>]

URLError(msg) == [EmptyURL EXCEPT !.err = <<msg>>]

\* url.getScheme: [scheme, rest, err]
RECURSIVE getSchemeAt(_, _)
getSchemeAt(raw, i) ==
    IF i > Len(raw) THEN [scheme |-> <<>>, rest |-> raw, err |-> NilErr]
    ELSE IF raw[i] \in Lower \cup Upper THEN getSchemeAt(raw, i + 1)
    ELSE IF raw[i] \in Digits \cup {"+", "-", "."}
    THEN IF i = 1 THEN [scheme |-> <<>>, rest |-> raw, err |-> NilErr]
         ELSE getSchemeAt(raw, i + 1)
    ELSE IF raw[i] = ":"
    THEN IF i = 1 THEN [scheme |-> <<>>, rest |-> <<>>,
                        err |-> <<"missing protocol scheme">>]
         ELSE [scheme |-> SubSeq(raw, 1, i - 1),
               rest |-> SubSeq(raw, i + 1, Len(raw)), err |-> NilErr]
    ELSE [scheme |-> <<>>, rest |-> raw, err |-> NilErr]

getScheme(raw) == getSchemeAt(raw, 1)

\* url.shouldEscape, for the modes "host", "path" and "fragment"
shouldEscape(c, mode) ==
    IF c \in Lower \cup Upper \cup Digits THEN FALSE
    ELSE IF mode = "host"
            /\ c \in {"!", "$", "&", "'", "(", ")", "*", "+", ",", ";", "=", ":",
                      "[", "]", "<", ">", "\""}
    THEN FALSE
    ELSE IF c \in {"-", "_", ".", "~"} THEN FALSE
    ELSE IF c \in {"$", "&", "+", ",", "/", ":", ";", "=", "?", "@"}
            /\ mode \in {"path", "fragment"}
    THEN mode = "path" /\ c = "?"
    ELSE IF mode = "fragment" /\ c \in {"!", "(", ")", "*"} THEN FALSE
    ELSE TRUE

\* url.unescape's first pass, from position i on: the error it returns
RECURSIVE unescapeError(_, _, _)
unescapeError(s, i, mode) ==
    IF i > Len(s) THEN NilErr
    ELSE IF s[i] = "%"
    THEN IF i + 2 > Len(s) \/ s[i + 1] \notin HexDigits \/ s[i + 2] \notin HexDigits
         THEN <<"invalid URL escape">>
         ELSE IF /\ mode = "host"
                 /\ unhex(s[i + 1]) < 8
                 /\ SubSeq(s, i, i + 2) # <<"%", "2", "5">>
         THEN <<"invalid URL escape">>
         ELSE unescapeError(s, i + 3, mode)
    ELSE IF mode = "host" /\ Code(s[i]) < 128 /\ shouldEscape(s[i], "host")
    THEN <<"invalid character in host name">>
    ELSE unescapeError(s, i + 1, mode)

\* url.unescape's second pass, from position i on
RECURSIVE unescapeBytes(_, _)
unescapeBytes(s, i) ==
    IF i > Len(s) THEN <<>>
    ELSE IF s[i] = "%"
    THEN <<Byte(unhex(s[i + 1]) * 16 + unhex(s[i + 2]))>> \o unescapeBytes(s, i + 3)
    ELSE <<s[i]>> \o unescapeBytes(s, i + 1)

\* url.unescape, for the modes "host", "path" and "fragment": [s, err]
unescape(s, mode) ==
    IF unescapeError(s, 1, mode) # NilErr
    THEN [s |-> <<>>, err |-> unescapeError(s, 1, mode)]
    ELSE [s |-> unescapeBytes(s, 1), err |-> NilErr]

\* url.escape, for the modes "host", "path" and "fragment"
RECURSIVE escape(_, _)
escape(s, mode) ==
    IF s = <<>> THEN <<>>
    ELSE (IF shouldEscape(s[1], mode)
          THEN <<"%", UpperHex[(Code(s[1]) \div 16) + 1],
                 UpperHex[(Code(s[1]) % 16) + 1]>>
          ELSE <<s[1]>>)
         \o escape(Tail(s), mode)

\* url.validEncoded
validEncoded(s, mode) ==
    \A i \in 1..Len(s) :
        \/ s[i] \in {"!", "$", "&", "'", "(", ")", "*", "+", ",", ";", "=", ":",
                     "@", "[", "]", "%"}
        \/ ~shouldEscape(s[i], mode)

\* url.validOptionalPort
validOptionalPort(port) ==
    \/ port = <<>>
    \/ /\ port[1] = ":"
       /\ \A i \in 2..Len(port) : port[i] \in Digits

\* url.parseHost, for hosts that are no IP literal
parseHost(host) ==
    CASE ~HasPrefix(host, <<"[">>) ->
        IF /\ LastIndex(host, ":") # 0
           /\ ~validOptionalPort(SubSeq(host, LastIndex(host, ":"), Len(host)))
        THEN [s |-> <<>>, err |-> <<"invalid port after host">>]
        ELSE unescape(host, "host")

\* url.parseAuthority, for an authority without user information
parseAuthority(authority) ==
    CASE ~Contains(authority, "@") -> parseHost(authority)

\* (*URL).setPath, given unescape(p, encodePath)
setPathTo(u, p, path) ==
    IF path.err # NilErr THEN URLError(path.err[1])
    ELSE [u EXCEPT !.Path = path.s,
                   !.RawPath = IF escape(path.s, "path") = p THEN <<>> ELSE p]

\* (*URL).setPath
setPath(u, p) == setPathTo(u, p, unescape(p, "path"))

\* url.parse, its end: the host is set unless parseAuthority failed, then
\* the path
parseSetPath(u, host, omit, rest) ==
    IF host.err # NilErr THEN URLError(host.err[1])
    ELSE setPath([u EXCEPT !.Host = host.s, !.OmitHost = omit], rest)

\* url.parse, from the authority on: rest is what follows the scheme, with
\* the query cut off
parseFromAuthority(u0, scheme, rest) ==
    IF /\ HasPrefix(rest, <<"/", "/">>)
       /\ (scheme # <<>> \/ ~HasPrefix(rest, <<"/", "/", "/">>))
    THEN LET after == SubSeq(rest, 3, Len(rest))
             slash == Index(after, "/")
         IN IF slash = 0
            THEN parseSetPath(u0, parseAuthority(after), FALSE, <<>>)
            ELSE parseSetPath(u0, parseAuthority(SubSeq(after, 1, slash - 1)),
                              FALSE, SubSeq(after, slash, Len(after)))
    ELSE parseSetPath(u0, [s |-> <<>>, err |-> NilErr],
                      scheme # <<>> /\ HasPrefix(rest, <<"/">>), rest)

\* url.parse, from the opaque and rootless cases on
parseRest(scheme, rest, query, force) ==
    IF ~HasPrefix(rest, <<"/">>) /\ scheme # <<>>
    THEN [EmptyURL EXCEPT !.Scheme = scheme, !.RawQuery = query,
                          !.ForceQuery = force, !.Opaque = rest]
    ELSE IF ~HasPrefix(rest, <<"/">>) /\ Contains(Cut(rest, "/").before, ":")
    THEN URLError("first path segment in URL cannot contain colon")
    ELSE parseFromAuthority([EmptyURL EXCEPT !.Scheme = scheme, !.RawQuery = query,
                                             !.ForceQuery = force],
                            scheme, rest)

\* url.parse, from the query on: rest0 is what follows the scheme
parseQuery(scheme, rest0) ==
    IF rest0 # <<>> /\ rest0[Len(rest0)] = "?" /\ Count(rest0, "?") = 1
    THEN parseRest(scheme, SubSeq(rest0, 1, Len(rest0) - 1), <<>>, TRUE)
    ELSE parseRest(scheme, Cut(rest0, "?").before, Cut(rest0, "?").after, FALSE)

\* url.parse, from the result of getScheme on: the scheme is lower-cased
parseScheme(sch) ==
    IF sch.err # NilErr THEN URLError(sch.err[1])
    ELSE parseQuery(ToLower(sch.scheme), sch.rest)

\* url.stringContainsCTLByte: a byte below 0x20, or 0x7f
stringContainsCTLByte(s) ==
    \E i \in 1..Len(s) : Code(s[i]) < 32 \/ Code(s[i]) = 127

\* url.parse(rawURL, viaRequest = false)
parse(raw) ==
    IF stringContainsCTLByte(raw)
    THEN URLError("invalid control character in URL")
    ELSE IF raw = <<"*">> THEN [EmptyURL EXCEPT !.Path = <<"*">>]
    ELSE parseScheme(getScheme(raw))

\* (*URL).setFragment, given unescape(f, encodeFragment)
setFragmentTo(u, f, frag) ==
    IF frag.err # NilErr THEN URLError(frag.err[1])
    ELSE [u EXCEPT !.Fragment = frag.s,
                   !.RawFragment = IF escape(frag.s, "fragment") = f THEN <<>> ELSE f]

\* (*URL).setFragment
setFragment(u, f) == setFragmentTo(u, f, unescape(f, "fragment"))

\* url.Parse, given the parsed part before "#" and the part after it
parseFragment(u, frag) ==
    IF u.err # NilErr THEN u
    ELSE IF frag = <<>> THEN u
    ELSE setFragment(u, frag)

\* url.Parse
Parse(raw) == parseFragment(parse(Cut(raw, "#").before), Cut(raw, "#").after)

\* (*URL).EscapedPath
EscapedPath(u) ==
    IF /\ u.RawPath # <<>>
       /\ validEncoded(u.RawPath, "path")
       /\ unescape(u.RawPath, "path").err = NilErr
       /\ unescape(u.RawPath, "path").s = u.Path
    THEN u.RawPath
    ELSE IF u.Path = <<"*">> THEN <<"*">>
    ELSE escape(u.Path, "path")

\* (*URL).EscapedFragment
EscapedFragment(u) ==
    IF /\ u.RawFragment # <<>>
       /\ validEncoded(u.RawFragment, "fragment")
       /\ unescape(u.RawFragment, "fragment").err = NilErr
       /\ unescape(u.RawFragment, "fragment").s = u.Fragment
    THEN u.RawFragment
    ELSE escape(u.Fragment, "fragment")

\* (*URL).String, from the escaped path on: what precedes the query
stringBody(u, scheme, auth, path) ==
    IF u.Opaque # <<>> THEN scheme \o u.Opaque
    ELSE scheme \o auth
         \o (IF path # <<>> /\ path[1] # "/" /\ u.Host # <<>> THEN <<"/">> ELSE <<>>)
         \o (IF scheme \o auth = <<>> /\ ~(path # <<>> /\ path[1] # "/" /\ u.Host # <<>>)
                /\ Contains(Cut(path, "/").before, ":")
             THEN <<".", "/">> ELSE <<>>)
         \o path

\* (*URL).String, for URLs without user information
URLString(u) ==
    stringBody(u,
               IF u.Scheme # <<>> THEN u.Scheme \o <<":">> ELSE <<>>,
               IF u.Scheme # <<>> \/ u.Host # <<>>
               THEN IF u.OmitHost /\ u.Host = <<>> THEN <<>>
                    ELSE (IF u.Host # <<>> \/ u.Path # <<>>
                          THEN <<"/", "/">> ELSE <<>>) \o escape(u.Host, "host")
               ELSE <<>>,
               EscapedPath(u))
    \o (IF u.ForceQuery \/ u.RawQuery # <<>> THEN <<"?">> \o u.RawQuery ELSE <<>>)
    \o (IF u.Fragment # <<>> THEN <<"#">> \o EscapedFragment(u) ELSE <<>>)

(***************************************************************************)
(* buildRevisionLink (in.go:186-193)                                       *)
(***************************************************************************)

\* in.go:191: fmt.Sprintf("c/%d/%d", changeNum, psNum)
revisionPath(changeNum, psNum) ==
    <<"c", "/">> \o Itoa(changeNum) \o <<"/">> \o Itoa(psNum)

revisionLinkConcat(srcUrl, changeNum, psNum) ==
    IF srcUrl.err # NilErr THEN [link |-> <<>>, err |-> srcUrl.err]
    ELSE [link |-> URLString([srcUrl EXCEPT
                       !.Path = srcUrl.Path \o <<"/">> \o revisionPath(changeNum, psNum)]),
          err |-> NilErr]

\* in.go:188-192, on the parsed source URL
revisionLink(srcUrl, changeNum, psNum) ==
    IF srcUrl.err # NilErr THEN [link |-> <<>>, err |-> srcUrl.err]
    ELSE [link |-> URLString([srcUrl EXCEPT
                       !.Path = PathJoin(srcUrl.Path, revisionPath(changeNum, psNum))]),
          err |-> NilErr]

\* in.go:186-193
buildRevisionLink(src, changeNum, psNum) ==
    revisionLink(Parse(src.Url), changeNum, psNum)

(***************************************************************************)
(* Version and its marker file (Version is declared outside in.go/out.go;  *)
(* modelled from the specification's data model)                           *)
(***************************************************************************)

\* in.go:33
gerritVersionFilename == <<".", "g", "e", "r", "r", "i", "t", "_", "v", "e", "r", "s",
                           "i", "o", "n", ".", "j", "s", "o", "n">>

ZeroVersion == [ChangeId |-> "", Revision |-> "", Created |-> ""]

\* Version.Equal: by change identifier and revision identifier only
VersionEqual(v, o) == v.ChangeId = o.ChangeId /\ v.Revision = o.Revision

\* The marker file's JSON document, a sequence of <<key, value>> members
\* between an opening and a closing brace.
encodeVersion(v) ==
    << <<"{", "">>, <<"change_id", v.ChangeId>>, <<"revision", v.Revision>>,
       <<"created", v.Created>>, <<"}", "">> >>

\* The value of the last member named key, "" (the zero value) when absent
jsonField(doc, key) ==
    LET at == {i \in 1..Len(doc) : doc[i][1] = key} IN
    IF at = {} THEN ""
    ELSE doc[CHOOSE i \in at : \A j \in at : j <= i][2]

decodeVersion(doc) ==
    IF Len(doc) >= 2 /\ doc[1][1] = "{" /\ doc[Len(doc)][1] = "}"
    THEN [err |-> NilErr,
          ver |-> [ChangeId |-> jsonField(doc, "change_id"),
                   Revision |-> jsonField(doc, "revision"),
                   Created |-> jsonField(doc, "created")]]
    ELSE [err |-> <<"unexpected end of JSON input">>, ver |-> ZeroVersion]

NoFile == [exists |-> FALSE, data |-> <<>>]

\* How a write of the marker file may end
WriteOutcomes == {"ok", "not created", "short write"}

\* Version.WriteToFile: [file, err]
WriteToFile(v, file, outcome) ==
    CASE outcome = "ok" ->
            [file |-> [exists |-> TRUE, data |-> encodeVersion(v)], err |-> NilErr]
      [] outcome = "not created" ->
            [file |-> file, err |-> <<"open failed">>]
      [] outcome = "short write" ->
            [file |-> [exists |-> TRUE, data |-> SubSeq(encodeVersion(v), 1, 1)],
             err |-> <<"write failed">>]

\* Version.ReadFromFile: [ver, err]
ReadFromFile(file) ==
    IF ~file.exists THEN [err |-> <<"no such file">>, ver |-> ZeroVersion]
    ELSE decodeVersion(file.data)

\* filepath.Join, with "/" as the separator: the elements from the first
\* non-empty one on are joined and the result is cleaned (filepath.Clean is
\* path.Clean there); "" when every element is empty
filepathJoin(elem) ==
    IF \A i \in 1..Len(elem) : elem[i] = <<>> THEN <<>>
    ELSE Clean(JoinSlash(SubSeq(elem,
                                CHOOSE i \in 1..Len(elem) :
                                    /\ elem[i] # <<>>
                                    /\ \A j \in 1..(i - 1) : elem[j] = <<>>,
                                Len(elem))))

(***************************************************************************)
(* The auth manager (declared outside in.go/out.go; modelled from the      *)
(* specification: cookie material is written to a temporary file for the   *)
(* duration of the invocation, named in git's configuration, then deleted) *)
(***************************************************************************)

TmpNames == {"cookies-a", "cookies-b"}

NoAuthMan == [cookies |-> "", cookiesPath |-> ""]

newAuthManager(src) == [cookies |-> src.Cookies, cookiesPath |-> ""]

\* The cookie file, created on first use: [am, tmp, err]
cookiesFile(am, tmp, createOk) ==
    IF am.cookies = "" \/ am.cookiesPath # ""
    THEN [am |-> am, tmp |-> tmp, err |-> NilErr]
    ELSE IF createOk /\ TmpNames \ tmp # {}
    THEN LET name == CHOOSE n \in TmpNames \ tmp : TRUE IN
         [am |-> [am EXCEPT !.cookiesPath = name], tmp |-> tmp \cup {name},
          err |-> NilErr]
    ELSE [am |-> am, tmp |-> tmp, err |-> <<"cannot create cookie file">>]

\* authMan.gitConfigArgs: [am, tmp, args, err]
gitConfigArgs(am, tmp, createOk) ==
    LET c == cookiesFile(am, tmp, createOk) IN
    [am |-> c.am, tmp |-> c.tmp, err |-> c.err,
     args |-> IF c.err = NilErr
              THEN <<"config", "http.cookieFile", c.am.cookiesPath>> ELSE <<>>]

\* gerritClient: [am, tmp, err]
gerritClient(src, am, tmp, createOk, clientOk) ==
    LET c == cookiesFile(am, tmp, createOk) IN
    IF c.err # NilErr THEN c
    ELSE IF ~clientOk THEN [c EXCEPT !.err = <<"invalid gerrit url">>]
    ELSE c

\* authMan.cleanup: the files left once the cookie file is removed
cleanup(am, tmp) == IF am.cookiesPath # "" THEN tmp \ {am.cookiesPath} ELSE tmp

deferredCleanupDropped(am, tmp) == tmp

\* in.go:62, out.go:50: defer authMan.cleanup(), run on every return
deferredCleanup(am, tmp) == cleanup(am, tmp)

(***************************************************************************)
(* The review service (the REST client is outside in.go/out.go)            *)
(***************************************************************************)

NoUploader == [present |-> FALSE, Name |-> "", Email |-> ""]
TestUploader == [present |-> TRUE, Name |-> "Testy McTestface",
                 Email |-> "testy@example.com"]

HttpInfo == [URL |-> "https://h/testproject.git", Ref |-> "refs/changes/1/1/1"]
FakeInfo == [URL |-> "fake://example.com", Ref |-> "fake/ref"]

\* The fetch mappings the service answers with
ServiceFetchMaps == {[k \in {"http", "fake"} |-> IF k = "http" THEN HttpInfo ELSE FakeInfo],
                     [k \in {"anonymous http"} |-> HttpInfo],
                     [k \in {"fake"} |-> FakeInfo]}

ZeroChange == [ID |-> "", Project |-> "", Subject |-> "", ChangeNumber |-> 0]
ZeroRevision == [PatchSetNumber |-> 0, Uploader |-> NoUploader, Ref |-> "",
                 Fetch |-> <<>>]

\* getVersionChangeRevision: the answers the service may give for ver, the
\* change ver.ChangeId with its revision ver.Revision, or an error
GerritAnswers(ver) ==
    {[err |-> <<"version not found">>, change |-> ZeroChange, rev |-> ZeroRevision]}
    \cup
    {[err |-> NilErr,
      change |-> [ID |-> ver.ChangeId, Project |-> "testproject",
                  Subject |-> "Test Subject", ChangeNumber |-> 1],
      rev |-> [PatchSetNumber |-> 1, Uploader |-> u,
               Ref |-> "refs/changes/1/1/1", Fetch |-> f]]
     : u \in {NoUploader, TestUploader}, f \in ServiceFetchMaps}

(***************************************************************************)
(* Requests                                                                *)
(***************************************************************************)

GoodUrl == <<"s", ":", "/", "/", "h", "/", "p">>
BadUrl == <<":">>
\* A URL that ends with the byte 0x7f
CtlUrl == <<"s", ":", "/", "/", "h", "/", "p", Byte(127)>>

Sources == [Url : {GoodUrl, BadUrl, CtlUrl}, Cookies : {"", "cookie-data"}]

Versions == {[ChangeId |-> "Itestchange1", Revision |-> "deadbeef0", Created |-> "12345"],
             [ChangeId |-> "Itestchange2", Revision |-> "deadbeef1", Created |-> "20200"]}

BuildRoot == <<"b", "u", "i", "l", "d">>
Dirs == {<<"r", "e", "p", "o">>, <<"o", "t", "h", "e", "r">>}

\* The repository params of `out`: none, the two directories, the first
\* written repo/ and the second ./other, the build root "." and its parent
Repositories ==
    Dirs \cup {<<>>, <<"r", "e", "p", "o", "/">>, <<".", "/", "o", "t", "h", "e", "r">>,
               <<".">>, <<".", ".">>}

MarkerPaths == {filepathJoin(<<BuildRoot, r, gerritVersionFilename>>)
                : r \in Repositories}

NoLabels == <<>>
SomeLabels == [l \in {"Verified"} |-> 1]

ZeroParams == [FetchProtocol |-> "", FetchUrl |-> "", Repository |-> <<>>,
               Message |-> "", MessageFile |-> "", Labels |-> NoLabels]

InParams == {[ZeroParams EXCEPT !.FetchProtocol = p[1], !.FetchUrl = p[2]]
             : p \in {<<"", "">>, <<"fake", "">>, <<"", "some://otherurl">>}}

OutParams == {[ZeroParams EXCEPT !.Repository = r, !.Message = m,
                                 !.MessageFile = f, !.Labels = l]
              : r \in Repositories, m \in {"", "param message"},
                f \in {"", "message.txt"}, l \in {NoLabels, SomeLabels}}

NoRequest == [cmd |-> "", src |-> [Url |-> <<>>, Cookies |-> ""],
              ver |-> ZeroVersion, params |-> ZeroParams, targetDir |-> <<>>]

\* out.go:68-70: messageBytes and err before ioutil.ReadFile is called
NoRead == [done |-> FALSE, err |-> NilErr, data |-> ""]

NoLocals == [change |-> ZeroChange, rev |-> ZeroRevision, fetchArgs |-> <<>>,
             ver |-> ZeroVersion, message |-> "", link |-> [link |-> <<>>, err |-> NilErr],
             marker |-> "", exclude |-> "", client |-> "", read |-> NoRead]

NoResponse == [version |-> ZeroVersion, hasVersion |-> FALSE, metadata |-> <<>>,
               err |-> NilErr]

ProcIdle ==
    /\ pc = "idle"
    /\ req = NoRequest
    /\ loc = NoLocals
    /\ authMan = NoAuthMan
    /\ resp = NoResponse
    /\ gitLog = <<>>
    /\ logs = <<>>
    /\ reviews = <<>>
    /\ fs = [marker |-> [p \in MarkerPaths |-> NoFile], tmp |-> {}]
    /\ lastIn = [p \in MarkerPaths |-> [ok |-> FALSE, ver |-> ZeroVersion]]

(***************************************************************************)
(* Leaving and continuing a handler                                        *)
(***************************************************************************)

\* return err: the deferred cleanup runs, then the invocation has ended
Return(err, am, files, r) ==
    /\ pc' = "returned"
    /\ authMan' = am
    /\ fs' = [files EXCEPT !.tmp = deferredCleanup(am, files.tmp)]
    /\ resp' = [r EXCEPT !.err = err]

Continue(next, am, files, r) ==
    /\ pc' = next
    /\ authMan' = am
    /\ fs' = files
    /\ resp' = r

gitErrorIgnored(ok) == NilErr

\* in.go:171-180 git: the error of a git command that exits non-zero
gitError(ok) == IF ok THEN NilErr ELSE <<"git failed">>

\* in.go:171-175: git(dir, args...) runs execGit and logs its output
GitCall(args, ok, files) ==
    gitLog' = Append(gitLog, [dir |-> req.targetDir, args |-> args, ok |-> ok,
                              tmp |-> files.tmp])

\* A git command and the `if err != nil { return err }` that follows it
GitStep(args, ok, next, am, files) ==
    /\ GitCall(args, ok, files)
    /\ IF gitError(ok) # NilErr
       THEN Return(gitError(ok), am, files, resp)
       ELSE Continue(next, am, files, resp)

(***************************************************************************)
(* in (in.go:52-145)                                                       *)
(***************************************************************************)

\* The response of `in` carries the version of its request: in.go never sets
\* it, and TestInResponse (in_test.go:69-71) reads it back from the response
inResponse(ver) == [NoResponse EXCEPT !.version = ver, !.hasVersion = TRUE]

\* in.go:52-62: the request is decoded and the auth manager created
InStart ==
    /\ pc = "idle"
    /\ \E src \in Sources, ver \in Versions, params \in InParams, d \in Dirs,
          decodeOk \in BOOLEAN :
          IF decodeOk
          THEN /\ req' = [cmd |-> "in", src |-> src, ver |-> ver, params |-> params,
                          targetDir |-> filepathJoin(<<BuildRoot, d>>)]
               /\ Continue("in_client", newAuthManager(src), fs, inResponse(ver))
          ELSE /\ req' = [NoRequest EXCEPT !.cmd = "in"]
               /\ pc' = "returned"
               /\ authMan' = NoAuthMan
               /\ fs' = fs
               /\ resp' = [NoResponse EXCEPT !.err = <<"decode failed">>]
    /\ UNCHANGED <<loc, gitLog, logs, reviews, lastIn, pureVars>>

\* in.go:64-67
InGerritClient ==
    /\ pc = "in_client"
    /\ \E createOk \in BOOLEAN, clientOk \in BOOLEAN :
          LET c == gerritClient(req.src, authMan, fs.tmp, createOk, clientOk)
              files == [fs EXCEPT !.tmp = c.tmp]
          IN /\ IF c.err # NilErr
                THEN Return(<<"error setting up gerrit client">> \o c.err, c.am,
                            files, resp)
                ELSE Continue("in_version", c.am, files, resp)
             /\ loc' = [loc EXCEPT !.client = IF c.err = NilErr THEN "created"
                                                 ELSE "failed"]
    /\ UNCHANGED <<req, gitLog, logs, reviews, lastIn, pureVars>>

\* in.go:71-75
InGetVersion ==
    /\ pc = "in_version"
    /\ \E a \in GerritAnswers(req.ver) :
          IF a.err # NilErr
          THEN /\ Return(a.err, authMan, fs, resp)
               /\ loc' = loc
          ELSE /\ Continue("in_fetchargs", authMan, fs, resp)
               /\ loc' = [loc EXCEPT !.change = a.change, !.rev = a.rev]
    /\ UNCHANGED <<req, gitLog, logs, reviews, lastIn, pureVars>>

\* in.go:77-80
InResolveFetchArgs ==
    /\ pc = "in_fetchargs"
    /\ LET r == resolveFetchArgs(req.params, loc.rev) IN
       IF r.err # NilErr
       THEN /\ Return(<<"could not resolve fetch args">> \o r.err, authMan, fs, resp)
            /\ loc' = loc
       ELSE /\ Continue("in_git_init", authMan, fs, resp)
            /\ loc' = [loc EXCEPT !.fetchArgs = r.args]
    /\ UNCHANGED <<req, gitLog, logs, reviews, lastIn, pureVars>>

\* in.go:83-86
InGitInit ==
    /\ pc = "in_git_init"
    /\ \E ok \in BOOLEAN : GitStep(<<"init">>, ok, "in_git_color", authMan, fs)
    /\ UNCHANGED <<req, loc, logs, reviews, lastIn, pureVars>>

\* in.go:87-90
InGitConfigColor ==
    /\ pc = "in_git_color"
    /\ \E ok \in BOOLEAN :
          GitStep(<<"config", "color.ui", "always">>, ok, "in_git_auth", authMan, fs)
    /\ UNCHANGED <<req, loc, logs, reviews, lastIn, pureVars>>

\* in.go:92-99
InGitConfigAuth ==
    /\ pc = "in_git_auth"
    /\ \E createOk \in BOOLEAN, ok \in BOOLEAN :
          LET a == gitConfigArgs(authMan, fs.tmp, createOk)
              files == [fs EXCEPT !.tmp = a.tmp]
          IN IF a.err # NilErr
             THEN /\ Return(<<"error getting git config args">> \o a.err,
                            a.am, files, resp)
                  /\ gitLog' = gitLog
             ELSE GitStep(a.args, ok, "in_git_fetch", a.am, files)
    /\ UNCHANGED <<req, loc, logs, reviews, lastIn, pureVars>>

\* in.go:101-104
InGitFetch ==
    /\ pc = "in_git_fetch"
    /\ \E ok \in BOOLEAN : GitStep(loc.fetchArgs, ok, "in_git_checkout", authMan, fs)
    /\ UNCHANGED <<req, loc, logs, reviews, lastIn, pureVars>>

\* in.go:105-108
InGitCheckout ==
    /\ pc = "in_git_checkout"
    /\ \E ok \in BOOLEAN :
          GitStep(<<"checkout", "FETCH_HEAD">>, ok, "in_metadata", authMan, fs)
    /\ UNCHANGED <<req, loc, logs, reviews, lastIn, pureVars>>

\* in.go:114: fmt.Sprintf("%s <%s>", Name, Email)
formatUploader(u) == <<u.Name, " <", u.Email, ">">>

\* in.go:111-115
baseMetadata(change, rev) ==
    <<[Key |-> "project", Value |-> change.Project],
      [Key |-> "subject", Value |-> change.Subject]>>
    \o (IF rev.Uploader.present
        THEN <<[Key |-> "uploader", Value |-> formatUploader(rev.Uploader)]>>
        ELSE <<>>)

linkMetadataAlways(link) == <<[Key |-> "link", Value |-> link.link]>>

\* in.go:117-119
linkMetadata(link) ==
    IF link.err = NilErr THEN <<[Key |-> "link", Value |-> link.link]>> ELSE <<>>

\* in.go:110-121
InMetadata ==
    /\ pc = "in_metadata"
    /\ LET link == buildRevisionLink(req.src, loc.change.ChangeNumber,
                                     loc.rev.PatchSetNumber)
       IN /\ Continue("in_marker", authMan, fs,
                      [resp EXCEPT !.metadata = resp.metadata
                                                \o baseMetadata(loc.change, loc.rev)
                                                \o linkMetadata(link)])
          /\ logs' = IF link.err = NilErr THEN logs
                     ELSE Append(logs, "error building revision link")
          /\ loc' = [loc EXCEPT !.link = link]
    /\ UNCHANGED <<req, gitLog, reviews, lastIn, pureVars>>

markerVersionResolved(ver, change, rev) ==
    [ver EXCEPT !.ChangeId = change.Project, !.Revision = rev.Ref]

\* in.go:125: the Version that is written is the requested one
markerVersion(ver, change, rev) == ver

\* in.go:123-128
InWriteMarker ==
    /\ pc = "in_marker"
    /\ \E outcome \in WriteOutcomes :
          LET gerritVersionPath == filepathJoin(<<req.targetDir, gerritVersionFilename>>)
              w == WriteToFile(markerVersion(req.ver, loc.change, loc.rev),
                               fs.marker[gerritVersionPath], outcome)
              files == [fs EXCEPT !.marker[gerritVersionPath] = w.file]
          IN IF w.err # NilErr
             THEN /\ Return(<<"error writing">> \o w.err, authMan, files, resp)
                  /\ loc' = [loc EXCEPT !.marker = outcome]
             ELSE /\ Continue("in_exclude", authMan, files, resp)
                  /\ loc' = [loc EXCEPT !.marker = outcome]
    /\ UNCHANGED <<req, gitLog, logs, reviews, lastIn, pureVars>>

ExcludeOutcomes == {"ok", "mkdir failed", "open failed", "write failed"}

\* in.go:132-140: the excludeErr that line 140 tests is the one line 132
\* declares; lines 134 and 137 assign the excludeErr that line 134 declares
\* inside the if block.
excludeErr(outcome) ==
    IF outcome = "mkdir failed" THEN <<"mkdir failed">> ELSE NilErr

\* in.go:130-144 (the content of the exclude file is not modelled, only how
\* the attempt to append to it ends)
InExclude ==
    /\ pc = "in_exclude"
    /\ \E outcome \in ExcludeOutcomes :
          LET gerritVersionPath == filepathJoin(<<req.targetDir, gerritVersionFilename>>)
          IN /\ logs' = IF excludeErr(outcome) # NilErr
                        THEN Append(logs, "error adding to exclude") ELSE logs
             /\ loc' = [loc EXCEPT !.exclude = outcome]
             /\ lastIn' = [lastIn EXCEPT ![gerritVersionPath] =
                                             [ok |-> TRUE, ver |-> req.ver]]
             /\ Return(NilErr, authMan, fs, resp)
    /\ UNCHANGED <<req, gitLog, reviews, pureVars>>

(***************************************************************************)
(* out (out.go:41-100)                                                     *)
(***************************************************************************)

\* out.go:41-50
OutStart ==
    /\ pc = "idle"
    /\ \E src \in Sources, params \in OutParams, decodeOk \in BOOLEAN :
          IF decodeOk
          THEN /\ req' = [cmd |-> "out", src |-> src, ver |-> ZeroVersion,
                          params |-> params, targetDir |-> BuildRoot]
               /\ Continue("out_marker", newAuthManager(src), fs, NoResponse)
          ELSE /\ req' = [NoRequest EXCEPT !.cmd = "out"]
               /\ pc' = "returned"
               /\ authMan' = NoAuthMan
               /\ fs' = fs
               /\ resp' = [NoResponse EXCEPT !.err = <<"decode failed">>]
    /\ UNCHANGED <<loc, gitLog, logs, reviews, lastIn, pureVars>>

\* out.go:52-63
OutReadMarker ==
    /\ pc = "out_marker"
    /\ IF req.params.Repository = <<>>
       THEN /\ Return(<<"param repository required">>, authMan, fs, resp)
            /\ loc' = loc
       ELSE LET gerritVersionPath ==
                    filepathJoin(<<req.targetDir, req.params.Repository,
                                   gerritVersionFilename>>)
                r == ReadFromFile(fs.marker[gerritVersionPath])
            IN IF r.err # NilErr
               THEN /\ Return(<<"error reading">> \o r.err, authMan, fs, resp)
                    /\ loc' = loc
               ELSE /\ Continue("out_message", authMan, fs,
                                [resp EXCEPT !.version = r.ver, !.hasVersion = TRUE])
                    /\ loc' = [loc EXCEPT !.ver = r.ver]
    /\ UNCHANGED <<req, gitLog, logs, reviews, lastIn, pureVars>>

\* What reading the message file may give
MessageFileReads == {[err |-> NilErr, data |-> "file message"],
                     [err |-> NilErr, data |-> ""],
                     [err |-> <<"no such file">>, data |-> ""]}

resolveMessageParamFirst(params, read) ==
    IF params.Message # "" \/ params.MessageFile = ""
    THEN [message |-> params.Message, err |-> NilErr, logs |-> <<>>]
    ELSE IF read.err = NilErr
    THEN [message |-> read.data, err |-> NilErr, logs |-> <<>>]
    ELSE [message |-> "", err |-> <<"no fallback message; failing">>,
          logs |-> <<"error reading message file">>]

\* out.go:65-81: [message, err, logs]
resolveMessage(params, read) ==
    IF params.MessageFile = ""
    THEN [message |-> params.Message, err |-> NilErr, logs |-> <<>>]
    ELSE IF read.err = NilErr
    THEN [message |-> read.data, err |-> NilErr, logs |-> <<>>]
    ELSE IF params.Message = ""
    THEN [message |-> "", err |-> <<"no fallback message; failing">>,
          logs |-> <<"error reading message file">>]
    ELSE [message |-> params.Message, err |-> NilErr,
          logs |-> <<"error reading message file", "using fallback message">>]

\* out.go:68-70: the file is read only when message_file is set
messageFileRead(params, read) ==
    IF params.MessageFile = "" THEN NoRead
    ELSE [done |-> TRUE, err |-> read.err, data |-> read.data]

\* out.go:65-81
OutMessage ==
    /\ pc = "out_message"
    /\ \E read \in MessageFileReads :
          LET m == resolveMessage(req.params, read) IN
          /\ logs' = logs \o m.logs
          /\ IF m.err # NilErr
             THEN /\ Return(m.err, authMan, fs, resp)
                  /\ loc' = [loc EXCEPT !.read = messageFileRead(req.params, read)]
             ELSE /\ Continue("out_client", authMan, fs, resp)
                  /\ loc' = [loc EXCEPT !.message = m.message,
                                        !.read = messageFileRead(req.params, read)]
    /\ UNCHANGED <<req, gitLog, reviews, lastIn, pureVars>>

\* out.go:83-87
OutGerritClient ==
    /\ pc = "out_client"
    /\ \E createOk \in BOOLEAN, clientOk \in BOOLEAN :
          LET c == gerritClient(req.src, authMan, fs.tmp, createOk, clientOk)
              files == [fs EXCEPT !.tmp = c.tmp]
          IN /\ IF c.err # NilErr
                THEN Return(<<"error setting up gerrit client">> \o c.err, c.am,
                            files, resp)
                ELSE Continue("out_review", c.am, files, resp)
             /\ loc' = [loc EXCEPT !.client = IF c.err = NilErr THEN "created"
                                                 ELSE "failed"]
    /\ UNCHANGED <<req, gitLog, logs, reviews, lastIn, pureVars>>

reviewInputNoLabels(message, params) == [Message |-> message, Labels |-> NoLabels]

\* out.go:91-94
reviewInput(message, params) == [Message |-> message, Labels |-> params.Labels]

\* out.go:89-99
OutSetReview ==
    /\ pc = "out_review"
    /\ \E ok \in BOOLEAN :
          /\ reviews' = Append(reviews, [ChangeId |-> loc.ver.ChangeId,
                                         Revision |-> loc.ver.Revision,
                                         input |-> reviewInput(loc.message, req.params)])
          /\ Return(IF ok THEN NilErr ELSE <<"error sending review">>,
                    authMan, fs, resp)
    /\ UNCHANGED <<req, loc, gitLog, logs, lastIn, pureVars>>

\* One invocation per process: the process ends, the files stay
ProcessExit ==
    /\ pc = "returned"
    /\ pc' = "idle"
    /\ req' = NoRequest
    /\ loc' = NoLocals
    /\ authMan' = NoAuthMan
    /\ resp' = NoResponse
    /\ gitLog' = <<>>
    /\ logs' = <<>>
    /\ reviews' = <<>>
    /\ UNCHANGED <<fs, lastIn, pureVars>>

ProcInit ==
    /\ ProcIdle
    /\ fetchCall = NoFetchCall
    /\ fetchRet = NoFetchRet
    /\ linkCall = NoLinkCall
    /\ linkRet = NoLinkRet

Next ==
    \/ InStart
    \/ InGerritClient
    \/ InGetVersion
    \/ InResolveFetchArgs
    \/ InGitInit
    \/ InGitConfigColor
    \/ InGitConfigAuth
    \/ InGitFetch
    \/ InGitCheckout
    \/ InMetadata
    \/ InWriteMarker
    \/ InExclude
    \/ OutStart
    \/ OutReadMarker
    \/ OutMessage
    \/ OutGerritClient
    \/ OutSetReview
    \/ ProcessExit

Spec == ProcInit /\ [][Next]_vars

(***************************************************************************)
(* Inputs of SpecLink: a base URL is prefix \o path \o suffix              *)
(***************************************************************************)

MaxPathLen == 3
MaxChangeNum == 12
MaxPatchSet == 2

UrlPrefixes == {<<>>,
                <<"s", ":">>,
                <<"s", ":", "/", "/", "h">>,
                <<"/", "/", "h">>,
                <<":">>,
                <<"s", ":", "/", "/", "h", ":", "p">>,
                <<"S", ":", "/", "/", "h">>,
                <<"s", ":", "/", "/", "%", "4", "1">>}

PathChars == {"/", ".", "p", "%"}

RECURSIVE SeqsUpTo(_, _)
SeqsUpTo(chars, n) ==
    IF n = 0 THEN {<<>>}
    ELSE LET shorter == SeqsUpTo(chars, n - 1) IN
         shorter \cup {Append(s, ch) : s \in shorter, ch \in chars}

\* Paths whose first segment is a percent-escape
EscapeChars == {"1", "2", "4", "E", "e"}
EscapedPaths == {<<"/", "%", x, y>> \o tail
                 : x \in EscapeChars, y \in EscapeChars,
                   tail \in {<<>>, <<"/">>, <<"/", "p">>}}

\* Paths that hold a control character
ControlPaths == {<<"/", Byte(127)>>, <<"p", Byte(9), "/">>}

UrlPaths == SeqsUpTo(PathChars, MaxPathLen) \cup EscapedPaths \cup ControlPaths

UrlSuffixes == {<<>>, <<"?", "q">>, <<"#", "g">>, <<"?">>, <<"#">>, <<"#", "%">>}

LinkInit ==
    /\ linkCall \in [pre : UrlPrefixes, path : UrlPaths, suf : UrlSuffixes,
                     changeNum : {1, MaxChangeNum}, psNum : {1, MaxPatchSet}]
    /\ linkRet = NoLinkRet
    /\ ProcIdle
    /\ fetchCall = NoFetchCall
    /\ fetchRet = NoFetchRet
    /\ ProcIdle

BaseUrl(call) == call.pre \o call.path \o call.suf

BuildRevisionLinkCall ==
    /\ ~linkRet.done
    /\ linkRet' = [done |-> TRUE,
                   ret |-> buildRevisionLink([Url |-> BaseUrl(linkCall)],
                                             linkCall.changeNum, linkCall.psNum)]
    /\ UNCHANGED <<linkCall, fetchCall, fetchRet>>
    /\ UNCHANGED procVars

(***************************************************************************)
(* Inputs of SpecFetch                                                     *)
(***************************************************************************)

\* Keys a revision's fetch mapping may carry (a Go map[string]*FetchInfo
\* decoded from the server's JSON: any string is a possible key).
FetchKeys == {"", "http", "anonymous http", "ssh"}

FetchInfos == {[URL |-> "https://h/p.git", Ref |-> "refs/changes/1/1/1"],
               [URL |-> "fake://example.com", Ref |-> "fake/ref"]}

FetchMaps == UNION {[ks -> FetchInfos] : ks \in SUBSET FetchKeys}

NativeRefs == {"refs/changes/1/1/1", "refs/changes/1/1/2"}

FetchParams == [FetchProtocol : {"", "http", "anonymous http", "ssh", "fake"},
                FetchUrl : {"", "some://otherurl"}]

FetchInit ==
    /\ linkCall = NoLinkCall
    /\ linkRet = NoLinkRet
    /\ ProcIdle
    /\ fetchCall \in [params : FetchParams,
                      rev : [Ref : NativeRefs, Fetch : FetchMaps]]
    /\ fetchRet = NoFetchRet
    /\ ProcIdle

ResolveFetchArgsCall ==
    /\ ~fetchRet.done
    /\ fetchRet' = [done |-> TRUE,
                    ret |-> resolveFetchArgs(fetchCall.params, fetchCall.rev)]
    /\ UNCHANGED <<fetchCall, linkCall, linkRet>>
    /\ UNCHANGED procVars

FetchNext == ResolveFetchArgsCall

SpecFetch == FetchInit /\ [][FetchNext]_vars

LinkNext == BuildRevisionLinkCall

SpecLink == LinkInit /\ [][LinkNext]_vars

(***************************************************************************)
(* Properties                                                              *)
(***************************************************************************)

Range(seq) == {seq[i] : i \in 1..Len(seq)}

FetchEntryResult(f, k) == [args |-> <<"fetch", f[k].URL, f[k].Ref>>, err |-> NilErr]

\* C1: with no explicit fetch URL, an explicit fetch_protocol that is a key of
\* the revision's fetch mapping is the protocol used, even when "http" is a
\* key too; with no explicit protocol it is "http" whenever "http" is a key
\* and "anonymous http" when that is a key and "http" is not. The result is
\* <<"fetch", URL, Ref>> of that protocol's entry (the entry's ref, not the
\* revision's own).
C1_ProtocolSelection ==
    (fetchRet.done /\ fetchCall.params.FetchUrl = "") =>
        LET p == fetchCall.params.FetchProtocol
            f == fetchCall.rev.Fetch
        IN /\ (p # "" /\ p \in DOMAIN f) => fetchRet.ret = FetchEntryResult(f, p)
           /\ (p = "" /\ "http" \in DOMAIN f) =>
                  fetchRet.ret = FetchEntryResult(f, "http")
           /\ (p = "" /\ "http" \notin DOMAIN f /\ "anonymous http" \in DOMAIN f) =>
                  fetchRet.ret = FetchEntryResult(f, "anonymous http")

\* No protocol requested, "http" and "anonymous http" both offered with
\* different entries, and the "http" entry (whose ref is not the revision's
\* own) was returned.
C1_Witness ==
    /\ fetchRet.done
    /\ fetchCall.params.FetchUrl = ""
    /\ fetchCall.params.FetchProtocol = ""
    /\ {"http", "anonymous http"} \subseteq DOMAIN fetchCall.rev.Fetch
    /\ fetchCall.rev.Fetch["http"] # fetchCall.rev.Fetch["anonymous http"]
    /\ fetchCall.rev.Fetch["http"].Ref # fetchCall.rev.Ref
    /\ fetchRet.ret = FetchEntryResult(fetchCall.rev.Fetch, "http")

\* C2: with an explicit fetch URL, resolveFetchArgs returns
\* <<"fetch", that URL, the revision's own Ref>> without an error, whatever
\* the fetch mapping and fetch_protocol are.
C2_ExplicitUrl ==
    (fetchRet.done /\ fetchCall.params.FetchUrl # "") =>
        fetchRet.ret = [args |-> <<"fetch", fetchCall.params.FetchUrl,
                                   fetchCall.rev.Ref>>,
                        err |-> NilErr]

\* An explicit URL was used although a protocol was requested that the
\* mapping offers, with another URL and another ref.
C2_Witness ==
    /\ fetchRet.done
    /\ fetchCall.params.FetchUrl # ""
    /\ fetchCall.params.FetchProtocol \in DOMAIN fetchCall.rev.Fetch
    /\ fetchCall.rev.Fetch[fetchCall.params.FetchProtocol].Ref # fetchCall.rev.Ref
    /\ fetchRet.ret.args = <<"fetch", fetchCall.params.FetchUrl, fetchCall.rev.Ref>>

\* C3: with no explicit fetch URL, resolution fails with no fetch arguments
\* (a) when the requested fetch_protocol is not a key of the mapping and
\* (b) when no protocol is requested and neither "http" nor "anonymous http"
\* is a key, whatever other keys the mapping has.
C3_AbsentProtocolFails ==
    (fetchRet.done /\ fetchCall.params.FetchUrl = "") =>
        LET p == fetchCall.params.FetchProtocol
            f == fetchCall.rev.Fetch
        IN ((p # "" /\ p \notin DOMAIN f)
            \/ (p = "" /\ "http" \notin DOMAIN f /\ "anonymous http" \notin DOMAIN f))
           => (fetchRet.ret.err # NilErr /\ fetchRet.ret.args = <<>>)

\* The git command `in` issues in position i
ExpectedGit(i) ==
    CASE i = 1 -> <<"init">>
      [] i = 2 -> <<"config", "color.ui", "always">>
      [] i = 3 -> <<"config", "http.cookieFile", authMan.cookiesPath>>
      [] i = 4 -> loc.fetchArgs
      [] i = 5 -> <<"checkout", "FETCH_HEAD">>

\* C4: the git commands of an invocation are, in this order and each at most
\* once, init, config color.ui always, config <auth args>, fetch <url> <ref>,
\* checkout FETCH_HEAD, all in the target directory; only the last command
\* issued can have failed, and when it has the invocation has ended with an
\* error and no write of the marker file was attempted; a write of the marker
\* file is attempted only after checkout FETCH_HEAD succeeded. `out` issues no
\* git command.
C4_GitOrder ==
    /\ Len(gitLog) <= 5
    /\ \A i \in 1..Len(gitLog) :
          /\ gitLog[i].dir = req.targetDir
          /\ gitLog[i].args = ExpectedGit(i)
          /\ i < Len(gitLog) => gitLog[i].ok
    /\ Len(gitLog) >= 4 => (Len(gitLog[4].args) = 3 /\ gitLog[4].args[1] = "fetch")
    /\ (gitLog # <<>> /\ ~gitLog[Len(gitLog)].ok) =>
          (pc = "returned" /\ resp.err = <<"git failed">> /\ loc.marker = "")
    /\ loc.marker # "" => (Len(gitLog) = 5 /\ gitLog[5].ok)
    /\ gitLog # <<>> => req.cmd = "in"

\* git fetch failed after three successful commands and `in` has returned.
C4_Witness ==
    /\ pc = "returned"
    /\ Len(gitLog) = 4
    /\ ~gitLog[4].ok
    /\ gitLog[3].ok
    /\ gitLog[4].args = <<"fetch", "some://otherurl", "refs/changes/1/1/1">>

\* C5: once an invocation of `in` or `out` has ended, on whatever path, no
\* cookie file exists; while it runs the only cookie file that exists is the
\* one its auth manager created.
C5_CookieFileScoped ==
    /\ pc \in {"idle", "returned"} => fs.tmp = {}
    /\ fs.tmp \subseteq {authMan.cookiesPath}

\* `in` ended with a git failure after git had run with the cookie file in
\* place, and the file is gone.
C5_Witness ==
    /\ pc = "returned"
    /\ req.cmd = "in"
    /\ resp.err = <<"git failed">>
    /\ authMan.cookiesPath # ""
    /\ \E i \in 1..Len(gitLog) : authMan.cookiesPath \in gitLog[i].tmp
    /\ fs.tmp = {}

\* What `out` finds in the marker file of its repository param
OutMarkerRead ==
    ReadFromFile(fs.marker[filepathJoin(<<req.targetDir, req.params.Repository,
                                          gerritVersionFilename>>)])

\* C6: `out` submits at most one review, and exactly one when it returns
\* without an error; a review is keyed by the ChangeId and Revision of the
\* Version in <target>/<repository>/.gerrit_version.json and carries the
\* resolved message and the labels param. With an empty repository param, an
\* unreadable marker file or a failed message resolution `out` ends with an
\* error and submits nothing; the response version is set only once the marker
\* file was read, and to its Version. `in` submits no review.
C6_OneReview ==
    /\ Len(reviews) <= 1
    /\ reviews # <<>> => req.cmd = "out"
    /\ req.cmd = "out" /\ pc # "returned" /\ pc # "out_marker" => resp.hasVersion
    /\ (req.cmd = "out" /\ pc = "returned" /\ resp.err = NilErr) => Len(reviews) = 1
    /\ (req.cmd = "out" /\ req.params.Repository = <<>>) =>
          (reviews = <<>> /\ ~resp.hasVersion
           /\ (pc = "returned" => resp.err # NilErr))
    /\ (req.cmd = "out" /\ req.params.Repository # <<>>) =>
          /\ OutMarkerRead.err # NilErr =>
                (reviews = <<>> /\ ~resp.hasVersion
                 /\ (pc = "returned" => resp.err # NilErr))
          /\ resp.hasVersion =>
                (OutMarkerRead.err = NilErr /\ resp.version = OutMarkerRead.ver)
          /\ \A i \in 1..Len(reviews) :
                reviews[i] = [ChangeId |-> OutMarkerRead.ver.ChangeId,
                              Revision |-> OutMarkerRead.ver.Revision,
                              input |-> [Message |-> loc.message,
                                         Labels |-> req.params.Labels]]
    /\ (req.cmd = "out" /\ pc = "returned"
        /\ resp.err = <<"no fallback message; failing">>) => reviews = <<>>

\* `out` returned without an error after one review carrying labels.
C6_Witness ==
    /\ req.cmd = "out"
    /\ pc = "returned"
    /\ resp.err = NilErr
    /\ Len(reviews) = 1
    /\ reviews[1].input.Labels = SomeLabels
    /\ reviews[1].ChangeId = "Itestchange2"

\* C7: when `in` has succeeded for a Version v, reading .gerrit_version.json
\* in its target directory gives a Version equal to v (same change and
\* revision identifier); the Version `out` responds with, and the key of the
\* review it submits, equal the Version of the last `in` that succeeded on that
\* directory.
C7_MarkerRoundTrip ==
    /\ (req.cmd = "in" /\ pc = "returned" /\ resp.err = NilErr) =>
          LET r == ReadFromFile(fs.marker[filepathJoin(<<req.targetDir,
                                                         gerritVersionFilename>>)])
          IN r.err = NilErr /\ VersionEqual(r.ver, req.ver)
    /\ (req.cmd = "out" /\ resp.hasVersion) =>
          LET last == lastIn[filepathJoin(<<req.targetDir, req.params.Repository,
                                            gerritVersionFilename>>)]
          IN /\ last.ok
             /\ VersionEqual(resp.version, last.ver)
             /\ \A i \in 1..Len(reviews) :
                   /\ reviews[i].ChangeId = last.ver.ChangeId
                   /\ reviews[i].Revision = last.ver.Revision

\* `out`, its repository param written ./other, reviewed the revision that
\* an earlier `in` had checked out into the directory other, the second of
\* the two directories that hold a marker file.
C7_Witness ==
    /\ req.cmd = "out"
    /\ pc = "returned"
    /\ resp.err = NilErr
    /\ req.params.Repository = <<".", "/", "o", "t", "h", "e", "r">>
    /\ resp.version.ChangeId = "Itestchange2"
    /\ Len(reviews) = 1
    /\ reviews[1].Revision = "deadbeef1"
    /\ fs.marker[filepathJoin(<<BuildRoot, <<"r", "e", "p", "o">>,
                               gerritVersionFilename>>)].exists

\* C8: when creating the directory of .git/info/exclude, opening the file or
\* writing the line to it fails, `in` logs the failure and still returns
\* success, the marker file being written.
C8_ExcludeFailureLogged ==
    (req.cmd = "in" /\ pc = "returned"
     /\ loc.exclude \in {"mkdir failed", "open failed", "write failed"}) =>
        /\ resp.err = NilErr
        /\ loc.marker = "ok"
        /\ "error adding to exclude" \in Range(logs)

LinkFields == SelectSeq(resp.metadata, LAMBDA m : m.Key = "link")

\* `in` is past the metadata step, after a successful checkout
AfterCheckout ==
    /\ req.cmd = "in"
    /\ pc \in {"in_marker", "in_exclude", "returned"}
    /\ Len(gitLog) = 5
    /\ gitLog[5].ok

\* C9 as claimed: after a successful checkout the metadata holds project and
\* subject, and uploader exactly when the revision has one; when
\* buildRevisionLink fails the failure is logged, there is no "link" field,
\* and `in` ends with the marker file written and success; when it succeeds
\* there is exactly one "link" field.
C9_LinkFailureSucceeds ==
    AfterCheckout =>
        /\ [Key |-> "project", Value |-> loc.change.Project] \in Range(resp.metadata)
        /\ [Key |-> "subject", Value |-> loc.change.Subject] \in Range(resp.metadata)
        /\ loc.rev.Uploader.present <=>
              (\E i \in 1..Len(resp.metadata) : resp.metadata[i].Key = "uploader")
        /\ loc.link.err # NilErr =>
              /\ LinkFields = <<>>
              /\ "error building revision link" \in Range(logs)
              /\ pc = "returned" => (loc.marker = "ok" /\ resp.err = NilErr)
        /\ loc.link.err = NilErr => Len(LinkFields) = 1

\* C9 as amended: after a successful checkout the metadata holds project and
\* subject, and uploader exactly when the revision has one. When
\* buildRevisionLink fails (as it does for the source URL ":" and for one
\* holding the byte 0x7f) the failure is logged and there is no "link" field;
\* when it succeeds (as for s://h/p) there is exactly one "link" field, holding
\* the link. With or without a link, `in` goes on to write the marker file
\* and returns success exactly when that write succeeds: a failed write is the
\* only error `in` returns after the checkout.
C9_LinkNonFatal ==
    AfterCheckout =>
        LET link == buildRevisionLink(req.src, loc.change.ChangeNumber,
                                      loc.rev.PatchSetNumber)
        IN /\ [Key |-> "project", Value |-> loc.change.Project] \in Range(resp.metadata)
           /\ [Key |-> "subject", Value |-> loc.change.Subject] \in Range(resp.metadata)
           /\ loc.rev.Uploader.present <=>
                 (\E i \in 1..Len(resp.metadata) : resp.metadata[i].Key = "uploader")
           /\ link.err # NilErr =>
                 /\ LinkFields = <<>>
                 /\ "error building revision link" \in Range(logs)
           /\ link.err = NilErr =>
                 /\ LinkFields = <<[Key |-> "link", Value |-> link.link]>>
                 /\ "error building revision link" \notin Range(logs)
           /\ req.src.Url \in {BadUrl, CtlUrl} => link.err # NilErr
           /\ req.src.Url = GoodUrl =>
                 link = [link |-> GoodUrl \o <<"/", "c", "/", "1", "/", "1">>,
                         err |-> NilErr]
           /\ pc = "returned" =>
                 /\ loc.marker \in WriteOutcomes
                 /\ resp.err = NilErr <=> loc.marker = "ok"
                 /\ loc.marker = "ok" =>
                       fs.marker[filepathJoin(<<req.targetDir, gerritVersionFilename>>)]
                           = [exists |-> TRUE, data |-> encodeVersion(req.ver)]
           /\ pc = "in_exclude" => loc.marker = "ok"

\* `in` returned success for a source whose URL does not parse: no link
\* field, project and subject present, marker file written.
C9_Witness ==
    /\ req.cmd = "in"
    /\ pc = "returned"
    /\ resp.err = NilErr
    /\ req.src.Url = BadUrl
    /\ loc.marker = "ok"
    /\ LinkFields = <<>>
    /\ Len(resp.metadata) = 3

RECURSIVE TrimSlashes(_)
TrimSlashes(p) ==
    IF p # <<>> /\ p[Len(p)] = "/" THEN TrimSlashes(SubSeq(p, 1, Len(p) - 1)) ELSE p

\* The readings of "the base URL with c/<change>/<patchset> appended to its
\* path": the path's trailing slashes kept, dropped once or dropped
\* altogether; no separator before "c" when the path is empty; an empty
\* fragment kept or dropped
AppendedLinks(call) ==
    {call.pre \o p \o sep \o <<"c", "/">> \o Itoa(call.changeNum) \o <<"/">>
              \o Itoa(call.psNum) \o suf
     : p \in {call.path, TrimSlashes(call.path),
              IF call.path # <<>> /\ call.path[Len(call.path)] = "/"
              THEN SubSeq(call.path, 1, Len(call.path) - 1) ELSE call.path},
       sep \in {<<"/">>} \cup (IF call.path = <<>> THEN {<<>>} ELSE {}),
       suf \in {call.suf} \cup (IF call.suf = <<"#">> THEN {<<>>} ELSE {})}

HasAuthority(pre) == pre \in {<<"s", ":", "/", "/", "h">>, <<"/", "/", "h">>,
                               <<"S", ":", "/", "/", "h">>}

\* The prefix with its scheme in lower case
LowerScheme(pre) ==
    IF pre = <<"S", ":", "/", "/", "h">> THEN <<"s", ":", "/", "/", "h">> ELSE pre

\* The bytes net/url writes unescaped in a path, of those a path can hold
UnescapedInPath ==
    Lower \cup Upper \cup Digits
    \cup {"-", "_", ".", "~", "$", "&", "+", ",", "/", ":", ";", "=", "@"}

\* The first segment of the link's path when the base path's first segment
\* is the escape %xy: the byte itself when net/url writes it unescaped,
\* otherwise its escape in upper-case hexadecimal; nothing for the byte "."
EscapeWritten(x, y) ==
    LET b == Byte(unhex(x) * 16 + unhex(y)) IN
    IF b = "." THEN <<>>
    ELSE IF b \in UnescapedInPath THEN <<"/", b>>
    ELSE <<"/", "%", UpperHex[unhex(x) + 1], UpperHex[unhex(y) + 1]>>

\* pre, path and suf are the scheme and authority, the path, and the query
\* or fragment of the base URL (RFC 3986's reading of pre \o path \o suf)
IsDecomposed(call) ==
    /\ call.pre \in {<<>>, <<"s", ":">>, <<"s", ":", "/", "/", "h">>, <<"/", "/", "h">>,
                    <<"S", ":", "/", "/", "h">>}
    /\ HasAuthority(call.pre) => (call.path = <<>> \/ call.path[1] = "/")
    /\ ~HasAuthority(call.pre) => ~HasPrefix(call.path, <<"/", "/">>)

HasScheme(pre) == pre \in {<<"s", ":">>, <<"s", ":", "/", "/", "h">>}

\* The base URL without its query and fragment
Hierarchy(call) == call.pre \o call.path

\* Its scheme, as written
UrlScheme(call) ==
    IF HasPrefix(call.pre, <<"s", ":">>) THEN <<"s">>
    ELSE IF HasPrefix(call.pre, <<"S", ":">>) THEN <<"S">>
    ELSE <<>>

\* What follows the scheme and its colon
AfterScheme(call) ==
    IF UrlScheme(call) = <<>> THEN Hierarchy(call)
    ELSE SubSeq(Hierarchy(call), 3, Len(Hierarchy(call)))

\* "//" follows: an authority, except for "///" without a scheme
UrlHasAuthority(call) ==
    /\ HasPrefix(AfterScheme(call), <<"/", "/">>)
    /\ (UrlScheme(call) # <<>> \/ ~HasPrefix(AfterScheme(call), <<"/", "/", "/">>))

\* The authority: what stands between "//" and the next "/"
UrlAuthority(call) ==
    IF UrlHasAuthority(call)
    THEN Cut(SubSeq(AfterScheme(call), 3, Len(AfterScheme(call))), "/").before
    ELSE <<>>

\* The path: what follows the authority
UrlPath(call) ==
    IF UrlHasAuthority(call)
    THEN SubSeq(AfterScheme(call), 3 + Len(UrlAuthority(call)), Len(AfterScheme(call)))
    ELSE AfterScheme(call)

\* A scheme that no "/" follows: the URL is opaque and has no path
IsOpaque(call) == UrlScheme(call) # <<>> /\ ~HasPrefix(AfterScheme(call), <<"/">>)

\* A "%" that two hexadecimal digits do not follow
HasBadEscape(s) ==
    \E i \in 1..Len(s) :
        /\ s[i] = "%"
        /\ \/ i + 2 > Len(s)
           \/ s[i + 1] \notin {"0","1","2","3","4","5","6","7","8","9",
                               "a","b","c","d","e","f","A","B","C","D","E","F"}
           \/ s[i + 2] \notin {"0","1","2","3","4","5","6","7","8","9",
                               "a","b","c","d","e","f","A","B","C","D","E","F"}

\* The bytes below 0x20 and the byte 0x7f
ControlBytes == {Byte(v) : v \in (0..31) \cup {127}}

\* The base URLs url.Parse rejects, of those written with letters, digits,
\* "/", ".", ":", "%", "?", "#" and control characters: a control character
\* before the fragment; no scheme and a colon in the first path segment; a
\* port that is no number; a "%" that two hexadecimal digits do not follow, in
\* the authority, the path or the fragment; the escape of a byte below 0x80
\* other than %25 in the authority
Unparseable(call) ==
    \/ \E i \in 1..Len(Cut(BaseUrl(call), "#").before) :
          Cut(BaseUrl(call), "#").before[i] \in ControlBytes
    \/ /\ UrlScheme(call) = <<>>
       /\ ~HasPrefix(AfterScheme(call), <<"/">>)
       /\ Contains(Cut(AfterScheme(call), "/").before, ":")
    \/ /\ Contains(UrlAuthority(call), ":")
       /\ \E i \in (LastIndex(UrlAuthority(call), ":") + 1)..Len(UrlAuthority(call)) :
             UrlAuthority(call)[i] \notin Digits
    \/ HasBadEscape(UrlAuthority(call))
    \/ \E i \in 1..Len(UrlAuthority(call)) :
          /\ UrlAuthority(call)[i] = "%"
          /\ UrlAuthority(call)[i + 1] \in {"0", "1", "2", "3", "4", "5", "6", "7"}
          /\ SubSeq(UrlAuthority(call), i, i + 2) # <<"%", "2", "5">>
    \/ ~IsOpaque(call) /\ HasBadEscape(UrlPath(call))
    \/ HasPrefix(call.suf, <<"#">>) /\ HasBadEscape(Tail(call.suf))

\* The query and fragment as the link has them: an empty fragment is dropped
WrittenSuffix(suf) == IF suf = <<"#">> THEN <<>> ELSE suf

\* c/<change>/<patchset>
RevisionSegments(call) ==
    <<"c", "/">> \o Itoa(call.changeNum) \o <<"/">> \o Itoa(call.psNum)

\* The link of a base URL that has a path and no percent-escape: the scheme
\* in lower case, the authority (an empty one only after a scheme), then
\* path.Join of the path and c/<change>/<patchset>, after a "/" if the join
\* has none and a host precedes, then the query and fragment
CleanedLink(call) ==
    (IF UrlScheme(call) = <<>> THEN <<>> ELSE <<"s", ":">>)
    \o (IF UrlHasAuthority(call) /\ (UrlScheme(call) # <<>> \/ UrlAuthority(call) # <<>>)
        THEN <<"/", "/">> \o UrlAuthority(call) ELSE <<>>)
    \o (IF UrlAuthority(call) # <<>>
           /\ ~HasPrefix(PathJoin(UrlPath(call), RevisionSegments(call)), <<"/">>)
        THEN <<"/">> ELSE <<>>)
    \o PathJoin(UrlPath(call), RevisionSegments(call))
    \o WrittenSuffix(call.suf)

SchemeWithoutSlash(call) ==
    call.pre = <<"s", ":">> /\ ~HasPrefix(call.path, <<"/">>)

\* No percent-escape, no "." or ".." segment, and no empty segment but
\* trailing ones and the one before a leading slash
PlainPath(path) ==
    LET segs == SplitSlash(TrimSlashes(path)) IN
    \A i \in 1..Len(segs) :
        /\ ~Contains(segs[i], "%")
        /\ segs[i] # <<".">>
        /\ segs[i] # <<".", ".">>
        /\ segs[i] = <<>> => i = 1

ReviewMessages == {reviews[i].input.Message : i \in 1..Len(reviews)}

\* `out` has resolved its message and gone on to the review
MessageResolved == pc \in {"out_client", "out_review"} \/ loc.client # ""

\* C11: in `out`, with message_file unset the file is not read and the review
\* message is the message param; with message_file set the file is read
\* before anything is sent: when the read succeeds the message is the file's
\* content, whatever the message param is; when it fails and the message param
\* is non-empty the message is the message param; when it fails and the message
\* param is empty `out` returns the error "no fallback message; failing"
\* without having called gerritClient, created a cookie file or submitted a
\* review. Message resolution fails in no other case.
C11_MessageResolution ==
    req.cmd = "out" =>
        LET params == req.params IN
        /\ params.MessageFile = "" =>
              /\ ~loc.read.done
              /\ MessageResolved => loc.message = params.Message
              /\ ReviewMessages \subseteq {params.Message}
        /\ (params.MessageFile # "" /\ MessageResolved) => loc.read.done
        /\ (loc.read.done /\ loc.read.err = NilErr) =>
              /\ MessageResolved
              /\ loc.message = loc.read.data
              /\ ReviewMessages \subseteq {loc.read.data}
        /\ (loc.read.done /\ loc.read.err # NilErr /\ params.Message # "") =>
              /\ MessageResolved
              /\ loc.message = params.Message
              /\ ReviewMessages \subseteq {params.Message}
        /\ (loc.read.done /\ loc.read.err # NilErr /\ params.Message = "") =>
              /\ pc = "returned"
              /\ resp.err = <<"no fallback message; failing">>
              /\ loc.client = ""
              /\ authMan.cookiesPath = ""
              /\ reviews = <<>>
        /\ resp.err = <<"no fallback message; failing">> =>
              (loc.read.done /\ loc.read.err # NilErr /\ params.Message = "")
        /\ (pc = "returned" /\ resp.err = NilErr) => Len(reviews) = 1

\* `out` has sent the content of its message file, an empty one, although a
\* message param was given.
C11_Witness ==
    /\ req.cmd = "out"
    /\ pc = "returned"
    /\ req.params.MessageFile # ""
    /\ req.params.Message = "param message"
    /\ loc.read.done
    /\ loc.read.err = NilErr
    /\ Len(reviews) = 1
    /\ reviews[1].input.Message = ""

====
